---- MODULE Spec2Model ----
(***************************************************************************)
(* paasta_maintenance: the maintenance schedule kept by the mesos master   *)
(* and the operations of paasta_tools/paasta_maintenance.py that read it,  *)
(* rebuild it and post it back.                                            *)
(*                                                                         *)
(* Strings are sequences of one-character strings, so that the '|' test    *)
(* and split of get_machine_ids are computed and not assumed.  A JSON      *)
(* document is a record [kind, windows]: kind "null" is JSON null, "empty" *)
(* is {}, "nowindows" is a non-empty object without a 'windows' key and    *)
(* "windows" is {"windows": [...]}.  Python lists are sequences.           *)
(***************************************************************************)
EXTENDS Integers, Sequences, FiniteSets, TLC

VARIABLES
    schedule,    \* the schedule document the control plane holds
    pc,          \* per operator process: where its drain/undrain call stands
    op,          \* per process: the arguments of its call
    snap,        \* per process: what its read of the schedule returned
    built,       \* per process: the payload built, or the exception raised
    posts,       \* per process: POSTs of the schedule issued by its call
    lastWriter,  \* the process whose POST the control plane took last (0: none)
    hostnames,   \* SpecResolve: the list handed to get_machine_ids
    resolved     \* SpecResolve: what get_machine_ids did with it

vars == <<schedule, pc, op, snap, built, posts, lastWriter, hostnames, resolved>>

procVars == <<schedule, pc, op, snap, built, posts, lastWriter>>
resolveVars == <<hostnames, resolved>>

(* ---------------------------- bounds ----------------------------------- *)

\* SpecMerge: the longest host list of a request, and the longest schedule a
\* drain is started on (its POST then leaves one window more at most).
MaxHosts == 2
MaxWindows == 1
\* SpecLong: the same for the runs on longer schedules.
MaxLongHosts == 1
MaxLongWindows == 3
\* Spec: the longest host list of a request.
MaxRaceHosts == 2
\* SpecResolve: the longest host list handed to get_machine_ids.
MaxSpecifiers == 2

(* ------------------------- strings and lists --------------------------- *)

Range(s) == {s[i] : i \in 1..Len(s)}

\* Lists over S of length at most n that name no element twice.
ListsUpTo(S, n) ==
    UNION {{l \in [1..k -> S] : \A i, j \in 1..k : i # j => l[i] # l[j]} : k \in 0..n}

\* x in lst
In(x, lst) == \E i \in 1..Len(lst) : lst[i] = x

\* Index of the first element of lst equal to x (0 when there is none).
IndexOf(x, lst) ==
    IF In(x, lst) THEN CHOOSE i \in 1..Len(lst) :
                           /\ lst[i] = x
                           /\ \A j \in 1..(i - 1) : lst[j] # x
    ELSE 0

\* lst.remove(x): the list without its first element equal to x.
RemoveFirst(lst, x) ==
    LET k == IndexOf(x, lst)
    IN  IF k = 0 THEN lst
        ELSE [i \in 1..(Len(lst) - 1) |-> IF i < k THEN lst[i] ELSE lst[i + 1]]

\* hostname.split('|'): the parts between the separators, in order.
RECURSIVE SplitFrom(_, _, _)
SplitFrom(s, i, cur) ==
    IF i > Len(s) THEN <<cur>>
    ELSE IF s[i] = "|" THEN <<cur>> \o SplitFrom(s, i + 1, <<>>)
    ELSE SplitFrom(s, i + 1, Append(cur, s[i]))

Split(s) == SplitFrom(s, 1, <<>>)

(* ------------------------------ DNS ------------------------------------ *)

\* The names the resolver knows; every other name fails to resolve.
DnsTable == [h \in {<<"a">>, <<"b">>, <<"c">>} |->
                 IF h = <<"a">> THEN <<"1">>
                 ELSE IF h = <<"b">> THEN <<"2">> ELSE <<"3">>]

Resolvable(h) == h \in DOMAIN DnsTable

gethostbyname(h) == DnsTable[h]

(* ------------------------ get_machine_ids ------------------------------ *)

\* ResolveOne looking every name up, also one that carries its address.
ResolveOneAlwaysLookingUp(hostname) ==
    IF In("|", hostname)
    THEN LET parts == Split(hostname)
         IN  IF Len(parts) = 2
             THEN [status |-> "ok",
                   id |-> [hostname |-> parts[1], ip |-> parts[2]],
                   lookups |-> <<parts[1]>>]
             ELSE [status |-> "ValueError",
                   id |-> [hostname |-> <<>>, ip |-> <<>>],
                   lookups |-> <<>>]
    ELSE IF hostname \in {<<"a">>, <<"b">>, <<"c">>}
         THEN [status |-> "ok",
               id |-> [hostname |-> hostname,
                       ip |-> IF hostname = <<"a">> THEN <<"1">>
                              ELSE IF hostname = <<"b">> THEN <<"2">> ELSE <<"3">>],
               lookups |-> <<hostname>>]
         ELSE [status |-> "ResolutionError",
               id |-> [hostname |-> <<>>, ip |-> <<>>],
               lookups |-> <<hostname>>]

\* One pass of the loop body for one host specifier: the identity appended,
\* the name looked up (if any), or the exception raised.
ResolveOne(hostname) ==
    IF In("|", hostname)
    THEN LET parts == Split(hostname)
         IN  IF Len(parts) = 2
             THEN [status |-> "ok",
                   id |-> [hostname |-> parts[1], ip |-> parts[2]],
                   lookups |-> <<>>]
             ELSE [status |-> "ValueError",
                   id |-> [hostname |-> <<>>, ip |-> <<>>],
                   lookups |-> <<>>]
    ELSE IF Resolvable(hostname)
         THEN [status |-> "ok",
               id |-> [hostname |-> hostname, ip |-> gethostbyname(hostname)],
               lookups |-> <<hostname>>]
         ELSE [status |-> "ResolutionError",
               id |-> [hostname |-> <<>>, ip |-> <<>>],
               lookups |-> <<hostname>>]

\* The loop of get_machine_ids from specifier i on, with the list built so far
\* and the names handed to gethostbyname so far.  An exception ends the loop
\* and no list is returned.
RECURSIVE MachineIdsFrom(_, _, _, _)
MachineIdsFrom(names, i, machine_ids, lookups) ==
    IF i > Len(names)
    THEN [status |-> "ok", machine_ids |-> machine_ids, lookups |-> lookups]
    ELSE LET r == ResolveOne(names[i])
         IN  IF r.status = "ok"
             THEN MachineIdsFrom(names, i + 1, Append(machine_ids, r.id),
                                 lookups \o r.lookups)
             ELSE [status |-> r.status, machine_ids |-> <<>>,
                   lookups |-> lookups \o r.lookups]

get_machine_ids(names) == MachineIdsFrom(names, 1, <<>>, <<>>)

(* ---------------- build_maintenance_schedule_payload ------------------- *)

\* `if schedule:` - None and {} are false, every other object is true.
Truthy(doc) == doc.kind \in {"nowindows", "windows"}

\* for existing_machine_id in existing_window['machine_ids']: the list is
\* walked by index (j is the next index read) while the body removes from it.
RECURSIVE StripMachines(_, _, _)
StripMachines(ids, machine_ids, j) ==
    IF j > Len(ids) THEN ids
    ELSE IF In(ids[j], machine_ids)
         THEN StripMachines(RemoveFirst(ids, ids[j]), machine_ids, j + 1)
         ELSE StripMachines(ids, machine_ids, j + 1)

\* StripWindows leaving a window it has emptied in the list.
RECURSIVE StripWindowsKeepingEmptied(_, _, _)
StripWindowsKeepingEmptied(windows, machine_ids, i) ==
    IF i > Len(windows) THEN windows
    ELSE LET w == windows[i]
             left == StripMachines(w.machine_ids, machine_ids, 1)
         IN  StripWindowsKeepingEmptied(
                 [windows EXCEPT ![i] = [w EXCEPT !.machine_ids = left]],
                 machine_ids, i + 1)

\* for existing_window in schedule['windows']: walked by index (i is the next
\* index read); a window whose list the body empties is removed from the list
\* that is being walked, by value (the first window equal to it).
RECURSIVE StripWindows(_, _, _)
StripWindows(windows, machine_ids, i) ==
    IF i > Len(windows) THEN windows
    ELSE LET w == windows[i]
             left == StripMachines(w.machine_ids, machine_ids, 1)
             stripped == [w EXCEPT !.machine_ids = left]
             ws == [windows EXCEPT ![i] = stripped]
         IN  IF w.machine_ids # <<>> /\ left = <<>>
             THEN StripWindows(RemoveFirst(ws, stripped), machine_ids, i + 1)
             ELSE StripWindows(ws, machine_ids, i + 1)

\* Lines 161-190, given the document read and the identities resolved.
Payload(doc, machine_ids, start, duration, isDrain) ==
    LET window == [machine_ids |-> machine_ids,
                   unavailability |-> [start |-> start, duration |-> duration]]
    IN  IF Truthy(doc)
        THEN IF doc.kind = "nowindows"
             THEN [status |-> "KeyError", windows |-> <<>>]
             ELSE LET kept == StripWindows(doc.windows, machine_ids, 1)
                  IN  [status |-> "ok",
                       windows |-> IF isDrain THEN Append(kept, window) ELSE kept]
        ELSE [status |-> "ok",
              windows |-> IF isDrain THEN <<window>> ELSE <<>>]

\* build_maintenance_schedule_payload going on, with the identities it has,
\* when a host does not resolve.
BuildIgnoringFailedResolution(resp, names, start, duration, isDrain) ==
    IF resp.kind = "none"
    THEN [status |-> "AttributeError", windows |-> <<>>]
    ELSE Payload(resp, get_machine_ids(names).machine_ids, start, duration, isDrain)

\* The whole function on the value the schedule client handed back: None
\* (resp.kind = "none") has no json(); otherwise the identities are resolved
\* and the payload is built.
build_maintenance_schedule_payload(resp, names, start, duration, isDrain) ==
    IF resp.kind = "none"
    THEN [status |-> "AttributeError", windows |-> <<>>]
    ELSE LET r == get_machine_ids(names)
         IN  IF r.status # "ok"
             THEN [status |-> r.status, windows |-> <<>>]
             ELSE Payload(resp, r.machine_ids, start, duration, isDrain)

(* ------------------- the schedule client (environment) ----------------- *)

NoDocument == [kind |-> "none", windows |-> <<>>]

\* What get_maintenance_schedule() hands to its caller when the control plane
\* holds doc.  execute_request ends without a return statement, while its
\* callers use the value as the response (.json(), .text): both are outcomes
\* of the read here, the response carrying the document and no value at all.
get_maintenance_schedule(doc) == {doc, NoDocument}

\* The document the control plane holds after the POST of a payload.
Posted(payload) == [kind |-> "windows", windows |-> payload.windows]

(* --------------------------- request inputs ---------------------------- *)

Procs == {1, 2}

\* Host specifiers the operators use: a and b resolve through DNS, c|3 carries
\* its address, x does not resolve.
MergeSpecifiers == {<<"a">>, <<"b">>, <<"c", "|", "3">>}
LongSpecifiers == {<<"a">>, <<"b">>}
RaceSpecifiers == {<<"a">>, <<"b", "|", "2">>, <<"x">>}
Starts == {100}
Durations == {200, 300}
RaceDurations == {200}

Requests(specifiers, maxHosts, durations, isDrain) ==
    [hostnames : ListsUpTo(specifiers, maxHosts), start : Starts,
     duration : durations, drain : {isDrain}]

NoRequest == [hostnames |-> <<>>, start |-> 0, duration |-> 0, drain |-> FALSE]
NoOutcome == [status |-> "none", windows |-> <<>>]

InitialDocuments ==
    {[kind |-> "null", windows |-> <<>>], [kind |-> "empty", windows |-> <<>>],
     [kind |-> "nowindows", windows |-> <<>>], [kind |-> "windows", windows |-> <<>>]}

(* --------------------------- drain and undrain ------------------------- *)

\* Line 202 / 208: process p calls build_maintenance_schedule_payload, which
\* reads the schedule, resolves the hosts and builds the payload in memory.
BuildPayload(p, req) ==
    /\ pc[p] = "idle"
    /\ \E resp \in get_maintenance_schedule(schedule) :
           /\ snap' = [snap EXCEPT ![p] = resp]
           /\ built' = [built EXCEPT ![p] =
                  build_maintenance_schedule_payload(resp, req.hostnames, req.start,
                                                     req.duration, req.drain)]
    /\ op' = [op EXCEPT ![p] = req]
    /\ pc' = [pc EXCEPT ![p] = "built"]
    /\ posts' = [posts EXCEPT ![p] = 0]
    /\ UNCHANGED <<schedule, lastWriter, resolveVars>>

drain(p, requests) ==
    \E req \in requests : BuildPayload(p, req)

undrain(p, requests) ==
    \E req \in requests : BuildPayload(p, req)

\* Post guarded by a version check: refused when the schedule is no longer
\* the one the payload was built from.
PostIfUnchanged(p) ==
    /\ pc[p] = "built"
    /\ built[p].status = "ok"
    /\ schedule = snap[p]
    /\ schedule' = [kind |-> "windows", windows |-> built[p].windows]
    /\ posts' = [posts EXCEPT ![p] = posts[p] + 1]
    /\ lastWriter' = p
    /\ pc' = [pc EXCEPT ![p] = "done"]
    /\ UNCHANGED <<op, snap, built, hostnames, resolved>>

\* Lines 203-204 / 209-210: the payload is posted; the control plane replaces
\* its document by it.
Post(p) ==
    /\ pc[p] = "built"
    /\ built[p].status = "ok"
    /\ schedule' = Posted(built[p])
    /\ posts' = [posts EXCEPT ![p] = posts[p] + 1]
    /\ lastWriter' = p
    /\ pc' = [pc EXCEPT ![p] = "done"]
    /\ UNCHANGED <<op, snap, built, resolveVars>>

\* The exception raised while building the payload leaves drain / undrain
\* before the POST.
Raise(p) ==
    /\ pc[p] = "built"
    /\ built[p].status # "ok"
    /\ pc' = [pc EXCEPT ![p] = "failed"]
    /\ UNCHANGED <<schedule, op, snap, built, posts, lastWriter, resolveVars>>

\* The call is over; its locals are gone.
Return(p) ==
    /\ pc[p] \in {"done", "failed"}
    /\ pc' = [pc EXCEPT ![p] = "idle"]
    /\ op' = [op EXCEPT ![p] = NoRequest]
    /\ snap' = [snap EXCEPT ![p] = NoDocument]
    /\ built' = [built EXCEPT ![p] = NoOutcome]
    /\ posts' = [posts EXCEPT ![p] = 0]
    /\ UNCHANGED <<schedule, lastWriter, resolveVars>>

InitProcs ==
    /\ schedule \in InitialDocuments
    /\ pc = [p \in Procs |-> "idle"]
    /\ op = [p \in Procs |-> NoRequest]
    /\ snap = [p \in Procs |-> NoDocument]
    /\ built = [p \in Procs |-> NoOutcome]
    /\ posts = [p \in Procs |-> 0]
    /\ lastWriter = 0
    /\ hostnames = <<>>
    /\ resolved = [status |-> "none", machine_ids |-> <<>>, lookups |-> <<>>]

(* ----------- SpecMerge: one operator, one call after the other --------- *)

NextMerge ==
    \/ /\ Len(schedule.windows) <= MaxWindows
       /\ drain(1, Requests(MergeSpecifiers, MaxHosts, Durations, TRUE))
    \/ undrain(1, Requests(MergeSpecifiers, MaxHosts, Durations, FALSE))
    \/ Post(1)
    \/ Raise(1)
    \/ Return(1)

SpecMerge == InitProcs /\ [][NextMerge]_vars

(* ------ SpecLong: one operator, one host at a time, longer schedules --- *)

NextLong ==
    \/ /\ Len(schedule.windows) <= MaxLongWindows
       /\ drain(1, Requests(LongSpecifiers, MaxLongHosts, Durations, TRUE))
    \/ undrain(1, Requests(LongSpecifiers, MaxLongHosts, Durations, FALSE))
    \/ Post(1)
    \/ Raise(1)
    \/ Return(1)

SpecLong == InitProcs /\ [][NextLong]_vars

(* ---- Spec: two invocations of the tool, one call each, interleaved ----- *)

\* paasta_maintenance() performs one action and ends: a process that has
\* posted or failed takes no further step.
Next ==
    \E p \in Procs :
        \/ drain(p, Requests(RaceSpecifiers, MaxRaceHosts, RaceDurations, TRUE))
        \/ undrain(p, Requests(RaceSpecifiers, MaxRaceHosts, RaceDurations, FALSE))
        \/ Post(p)
        \/ Raise(p)

Spec == InitProcs /\ [][Next]_vars

(* ------------- SpecResolve: get_machine_ids on one host list ----------- *)

\* Host specifiers: plain names that resolve (a, b) and one that does not (x),
\* names with an address, with an empty part, and with two separators.
ResolveSpecifiers ==
    {<<"a">>, <<"b">>, <<"x">>, <<"a", "|", "9">>, <<"x", "|", "7">>,
     <<"b", "|">>, <<"|", "1">>, <<"|">>, <<"a", "|", "1", "|", "2">>,
     <<"a", "b", "|", "1", "2">>}

ResolveLists == UNION {[1..k -> ResolveSpecifiers] : k \in 0..MaxSpecifiers}

resolve ==
    /\ resolved.status = "none"
    /\ \E names \in ResolveLists :
           /\ hostnames' = names
           /\ resolved' = get_machine_ids(names)
    /\ UNCHANGED procVars

SpecResolve == InitProcs /\ [][resolve]_vars

(* ------------------------ vocabulary of the claims --------------------- *)

\* The windows a document carries (none when it has no 'windows' list).
WindowsOf(doc) == IF doc.kind = "windows" THEN doc.windows ELSE <<>>

MachinesOf(windows) == UNION {Range(windows[i].machine_ids) : i \in 1..Len(windows)}

MutuallyExclusive(windows) ==
    \A i, j \in 1..Len(windows) :
        i # j => Range(windows[i].machine_ids) \cap Range(windows[j].machine_ids) = {}

NoEmptyWindow(windows) == \A i \in 1..Len(windows) : windows[i].machine_ids # <<>>

NoRepeatedMachine(windows) ==
    \A i \in 1..Len(windows) :
        \A j, k \in 1..Len(windows[i].machine_ids) :
            j # k => windows[i].machine_ids[j] # windows[i].machine_ids[k]

ValidSchedule(windows) ==
    MutuallyExclusive(windows) /\ NoEmptyWindow(windows) /\ NoRepeatedMachine(windows)

\* The identities of p's request, and the window a drain of it appends.
RequestIds(p) == get_machine_ids(op[p].hostnames).machine_ids

RequestWindow(p) ==
    [machine_ids |-> RequestIds(p),
     unavailability |-> [start |-> op[p].start, duration |-> op[p].duration]]

\* p's call has read a document and merge has returned a schedule for it.
Merged(p) == pc[p] = "built" /\ built[p].status = "ok"

\* a is a subsequence of b from index i of a and index j of b on.
RECURSIVE SubseqFrom(_, _, _, _)
SubseqFrom(a, i, b, j) ==
    IF i > Len(a) THEN TRUE
    ELSE IF j > Len(b) THEN FALSE
    ELSE IF a[i] = b[j] THEN SubseqFrom(a, i + 1, b, j + 1)
    ELSE SubseqFrom(a, i, b, j + 1)

Subseq(a, b) == SubseqFrom(a, 1, b, 1)

Front(s) == SubSeq(s, 1, Len(s) - 1)

\* The windows of ws none of whose machines is among ids, in their order.
Untouched(ws, ids) ==
    SelectSeq(ws, LAMBDA w : Range(w.machine_ids) \cap Range(ids) = {})

\* Each window of kept comes from a window of before, in the same order, with
\* that window's unavailability and none but that window's machines.
KeepsOrder(kept, before) ==
    \E f \in [1..Len(kept) -> 1..Len(before)] :
        /\ \A k \in 1..Len(kept) :
               /\ kept[k].unavailability = before[f[k]].unavailability
               /\ Range(kept[k].machine_ids) \subseteq Range(before[f[k]].machine_ids)
        /\ \A k, l \in 1..Len(kept) : k < l => f[k] < f[l]

(* ------------------------------- claims -------------------------------- *)

\* C1 (mutual exclusion): when no machine identity is in two windows of the
\* schedule read, none is in two windows of the schedule merge returns.
C1_MutualExclusion ==
    \A p \in Procs :
        (Merged(p) /\ MutuallyExclusive(WindowsOf(snap[p])))
            => MutuallyExclusive(built[p].windows)

\* C2 (undrain removes exactly the requested hosts): the machines of the
\* schedule an undrain returns are those of the schedule read minus the
\* request's.
C2_UndrainRemovesExactly ==
    \A p \in Procs :
        (Merged(p) /\ ~op[p].drain)
            => MachinesOf(built[p].windows)
                   = MachinesOf(WindowsOf(snap[p])) \ Range(RequestIds(p))

\* C3 (idempotence of drain): for a valid schedule read, merging the same
\* drain request into the schedule the first merge returned gives the same set
\* of windows as the first merge.
C3_DrainIdempotent ==
    \A p \in Procs :
        (Merged(p) /\ op[p].drain /\ ValidSchedule(WindowsOf(snap[p])))
            => Range(build_maintenance_schedule_payload(
                         Posted(built[p]), op[p].hostnames, op[p].start,
                         op[p].duration, TRUE).windows)
                   = Range(built[p].windows)

\* C4 (no empty windows): when every window of the schedule read has a machine
\* and the request names at least one host, every window of the schedule merge
\* returns has a machine.
C4_NoEmptyWindows ==
    \A p \in Procs :
        (Merged(p) /\ NoEmptyWindow(WindowsOf(snap[p])) /\ op[p].hostnames # <<>>)
            => NoEmptyWindow(built[p].windows)

\* C4 witness: merge returned after stripping every machine of some window of
\* the schedule read, and that window is gone.
C4_Witness ==
    \E p \in Procs :
        /\ Merged(p)
        /\ NoEmptyWindow(WindowsOf(snap[p]))
        /\ op[p].hostnames # <<>>
        /\ \E i \in 1..Len(WindowsOf(snap[p])) :
               Range(WindowsOf(snap[p])[i].machine_ids) \subseteq Range(RequestIds(p))
        /\ Len(built[p].windows)
               < Len(WindowsOf(snap[p])) + (IF op[p].drain THEN 1 ELSE 0)

\* C5 (empty request is a no-op): with an empty host list, drain or undrain,
\* merge returns exactly the windows of the schedule read.
C5_EmptyRequestNoOp ==
    \A p \in Procs :
        (Merged(p) /\ op[p].hostnames = <<>>)
            => built[p].windows = WindowsOf(snap[p])

\* C8 (missing or malformed document read as the empty schedule): when the
\* document read is null, {} or an object without a windows list, and the
\* hosts resolve, no exception is raised; a drain returns exactly the one new
\* window and an undrain returns no window.
C8_MalformedIsEmpty ==
    \A p \in Procs :
        (/\ pc[p] = "built"
         /\ snap[p].kind \in {"null", "empty", "nowindows"}
         /\ get_machine_ids(op[p].hostnames).status = "ok")
            => /\ built[p].status = "ok"
               /\ built[p].windows
                      = IF op[p].drain THEN <<RequestWindow(p)>> ELSE <<>>

\* C10 (frame and order of a drain merge): the windows of the schedule read
\* that hold no machine of the request are in the result unchanged and in
\* their order; the windows that survive keep their order and unavailability;
\* the new window, with the request's machines, start and duration, is last.
C10_DrainFrameAndOrder ==
    \A p \in Procs :
        (Merged(p) /\ op[p].drain)
            => /\ built[p].windows # <<>>
               /\ built[p].windows[Len(built[p].windows)] = RequestWindow(p)
               /\ Subseq(Untouched(WindowsOf(snap[p]), RequestIds(p)),
                         Front(built[p].windows))
               /\ KeepsOrder(Front(built[p].windows), WindowsOf(snap[p]))

\* C10 on schedules without an empty window.
C10_OnNonEmptyWindows ==
    \A p \in Procs :
        (Merged(p) /\ op[p].drain /\ NoEmptyWindow(WindowsOf(snap[p])))
            => /\ built[p].windows # <<>>
               /\ built[p].windows[Len(built[p].windows)] = RequestWindow(p)
               /\ Subseq(Untouched(WindowsOf(snap[p]), RequestIds(p)),
                         Front(built[p].windows))
               /\ KeepsOrder(Front(built[p].windows), WindowsOf(snap[p]))

\* C6 (last write wins): a payload that was built is posted whatever the
\* control plane holds by then (no lock, no version check), and the control
\* plane then holds exactly the last poster's payload, built from the schedule
\* that poster read.
C6_LastWriteWins ==
    /\ \A p \in Procs : Merged(p) => ENABLED Post(p)
    /\ lastWriter # 0 => schedule = Posted(built[lastWriter])

\* C6 witness: two drains read the same schedule before either posted, both
\* have posted, and the schedule holds the hosts of the second poster and
\* none of the first's.
C6_Witness ==
    /\ pc[1] = "done" /\ pc[2] = "done"
    /\ op[1].drain /\ op[2].drain
    /\ posts[1] = 1 /\ posts[2] = 1
    /\ snap[1] = snap[2]
    /\ lastWriter = 2
    /\ RequestIds(1) # <<>> /\ RequestIds(2) # <<>>
    /\ Range(RequestIds(2)) \subseteq MachinesOf(schedule.windows)
    /\ Range(RequestIds(1)) \cap MachinesOf(schedule.windows) = {}

\* C7 (no partial write on failure): a call posts at most once, and only a
\* payload built in full from a schedule it read and from hosts that all
\* resolved; a call one of whose hosts does not resolve posts nothing, and the
\* control plane's schedule is never that call's.
C7_NoPartialWrite ==
    \A p \in Procs :
        /\ posts[p] <= 1
        /\ posts[p] = 1
               => /\ pc[p] = "done"
                  /\ snap[p].kind # "none"
                  /\ get_machine_ids(op[p].hostnames).status = "ok"
                  /\ built[p].status = "ok"
        /\ (pc[p] # "idle" /\ get_machine_ids(op[p].hostnames).status # "ok")
               => /\ posts[p] = 0
                  /\ lastWriter # p
        /\ pc[p] = "failed" => (posts[p] = 0 /\ lastWriter # p)

\* C7 witness: a call on two hosts, the first of which resolves and the second
\* of which does not, has ended without a POST.
C7_Witness ==
    \E p \in Procs :
        /\ pc[p] = "failed"
        /\ snap[p].kind # "none"
        /\ Len(op[p].hostnames) = 2
        /\ ResolveOne(op[p].hostnames[1]).status = "ok"
        /\ ResolveOne(op[p].hostnames[2]).status = "ResolutionError"
        /\ posts[p] = 0

HasSeparator(h) == \E i \in 1..Len(h) : h[i] = "|"

\* A specifier get_machine_ids accepts: name|address with one separator, or a
\* name the resolver knows.
Accepted(h) ==
    IF HasSeparator(h) THEN Cardinality({i \in 1..Len(h) : h[i] = "|"}) = 1
    ELSE h \in DOMAIN DnsTable

\* C9 (identity resolution): a list that is returned holds one identity per
\* specifier, in the order of the specifiers; h|ip gives {h, ip}, a name gives
\* {name, its address}; the names looked up are exactly the specifiers without
\* a separator, once each, in order; and a list of accepted specifiers is
\* returned.
C9_IdentityResolution ==
    /\ resolved.status = "ok" =>
           /\ Len(resolved.machine_ids) = Len(hostnames)
           /\ \A i \in 1..Len(hostnames) :
                  LET h == hostnames[i]
                      m == resolved.machine_ids[i]
                  IN  IF HasSeparator(h)
                      THEN /\ m.hostname \o <<"|">> \o m.ip = h
                           /\ ~HasSeparator(m.hostname)
                           /\ ~HasSeparator(m.ip)
                      ELSE /\ m.hostname = h
                           /\ m.ip = DnsTable[h]
           /\ resolved.lookups = SelectSeq(hostnames, LAMBDA h : ~HasSeparator(h))
    /\ (resolved.status # "none" /\ \A i \in 1..Len(hostnames) : Accepted(hostnames[i]))
           => resolved.status = "ok"

\* C9 witness: a list of two specifiers, one with its address and one without,
\* has been resolved.
C9_Witness ==
    /\ resolved.status = "ok"
    /\ Len(hostnames) = 2
    /\ HasSeparator(hostnames[1])
    /\ ~HasSeparator(hostnames[2])

====
